---- MODULE Spec2Model ----
(***************************************************************************)
(* Model of the rebalance execution engine of defiflow-agent:              *)
(* RebalancingService.executeRebalance (src/src/services/                  *)
(* RebalancingService.ts) driving one Execution over a plan of actions.    *)
(*                                                                         *)
(* JavaScript runs one synchronous block at a time, so every action below  *)
(* is one block of executeRebalance between two awaits: the state a        *)
(* caller, a listener or another request can observe changes only at an    *)
(* await.  The chain adapters (NearProtocol / EthereumProtocol) are the    *)
(* environment: each awaited adapter call either resolves or rejects.      *)
(*                                                                         *)
(* An action of the plan is identified by its position in the array that   *)
(* was handed to executeRebalance (field id); dependencies is a set of     *)
(* such identities.  The per-transaction results (gas totals, mock APY)    *)
(* carry no control flow and are left out.                                 *)
(***************************************************************************)
EXTENDS Integers, Sequences, FiniteSets, TLC

\* Largest number of actions in a plan handed to executeRebalance.
MaxActions == 2

\* Priorities are drawn from 1..MaxPriority.
MaxPriority == 2

VARIABLES
    pc,             \* where executeRebalance is suspended
    dryRun,         \* config.dryRun of the call
    actions,        \* execution.actions (the same array as config.actions)
    status,         \* execution.status ("none" before the call)
    transactions,   \* execution.transactions
    idx,            \* position of the for-loop in sortedActions
    error,          \* execution.error
    completedAt,    \* execution.completedAt is set
    executionQueue, \* ids of the executions in this.executionQueue
    adapterCalls,   \* ids of the actions handed to executeAction, in call order
    waitCalls,      \* ids of the actions handed to waitForConfirmation
    emitted,        \* events emitted on the service, in order
    cancelSignal,   \* id of the action in flight when a cancellation was asked for
    walletAddress,  \* execution.walletAddress
    strategy,       \* execution.strategy
    results         \* execution.results (without executionTime, a clock reading)

\* The state of one executeRebalance call.
execVars == <<pc, dryRun, actions, status, transactions, idx, error, completedAt,
              executionQueue, adapterCalls, waitCalls, emitted, cancelSignal,
              walletAddress, strategy, results>>

VARIABLES
    sigPc,          \* where executeCrossChainTx is suspended
    sigChain,       \* request.chain of the call
    attempts,       \* the local attempts of the poll loop
    signature,      \* the local signature: TRUE once a poll returned one
    requestCalls,   \* number of requestSignature calls issued
    pollCalls,      \* number of getSignature calls issued
    targetCalls,    \* number of executeOnTargetChain calls issued
    sigError        \* the error executeCrossChainTx rejected with

\* The state of one ChainSignatureService.executeCrossChainTx call.
sigVars == <<sigPc, sigChain, attempts, signature, requestCalls, pollCalls,
             targetCalls, sigError>>

VARIABLES
    settings,       \* this.autoRebalanceSettings, in insertion order
    monNow,         \* Date.now() of the monitor, in days
    tickPc,         \* where each run of checkAutoRebalanceTriggers is suspended
    tickWallet,     \* position of each run in the iteration over the settings
    tickRecs,       \* recommendations.length as each run last received it
    monExecutions,  \* the executions started by the monitor
    tickDetached,   \* the settings object a run holds, once the map has another
    monUpdates,     \* number of replacements of a stored settings object
    caught,         \* <<run, position>> when the last step was the catch block
    tickVisited     \* the positions each run has called getPortfolioSummary for

\* The state of the auto-rebalance trigger monitor.
monVars == <<settings, monNow, tickPc, tickWallet, tickRecs, monExecutions,
             tickDetached, monUpdates, caught, tickVisited>>

VARIABLES
    cache,          \* CacheManager.cache: the entry of each key, or NoEntry
    cacheNow,       \* Date.now() of the cache, in milliseconds
    callerPc,       \* where each call of getOrSet is suspended
    callerSawLive,  \* whether the key had a live entry when the call began
    callerResult,   \* what each call of getOrSet returned
    lastGet,        \* what the latest get found and answered
    swept           \* of each entry the latest cleanup removed: was it over age

\* The state of one CacheManager and of the calls on it.
cacheVars == <<cache, cacheNow, callerPc, callerSawLive,
               callerResult, lastGet, swept>>

VARIABLES
    wtPc,           \* where waitForTransaction is suspended, or how it ended
    wtAdapter,      \* the chain adapter of the call
    wtInitialized,  \* the adapter's isInitialized and provider are set
    wtReceipt,      \* what the chain has reported for the transaction
    wtElapsed       \* milliseconds since the call

\* The state of one waitForTransaction call.
waitVars == <<wtPc, wtAdapter, wtInitialized, wtReceipt, wtElapsed>>

VARIABLES
    trigCalled,     \* evaluateTriggers has been called
    trigSettings,   \* the settings of the call
    trigPortfolio,  \* the portfolio of the call
    trigNow,        \* Date.now() at the call, in days
    trigResult      \* what the call resolved with

\* One call of evaluateTriggers: its arguments and its result.
trigVars == <<trigCalled, trigSettings, trigPortfolio, trigNow, trigResult>>

\* What a step of executeRebalance leaves alone.
nonExecVars == <<sigVars, monVars, cacheVars, waitVars, trigVars>>

\* What a step of executeCrossChainTx leaves alone.
nonSigVars == <<execVars, monVars, cacheVars, waitVars, trigVars>>

\* What a step of the monitor leaves alone.
nonMonVars == <<execVars, sigVars, cacheVars, waitVars, trigVars>>

\* What an operation of the cache leaves alone.
nonCacheVars == <<execVars, sigVars, monVars, waitVars, trigVars>>

\* What a step of waitForTransaction leaves alone.
nonWaitVars == <<execVars, sigVars, monVars, cacheVars, trigVars>>

\* What a call of evaluateTriggers leaves alone.
nonTrigVars == <<execVars, sigVars, monVars, cacheVars, waitVars>>

vars == <<execVars, sigVars, monVars, cacheVars, waitVars, trigVars>>

\* The one execution id of a behaviour (executionId, line 211).
ExecId == 1

----------------------------------------------------------------------------
(* Plans: RebalanceAction[] *)

\* RebalanceAction, reduced to the fields that order the execution.
PlansOfLen(n) ==
    { [i \in 1..n |-> [id |-> i, priority |-> pr[i], dependencies |-> dp[i]]] :
        pr \in [1..n -> 1..MaxPriority], dp \in [1..n -> SUBSET (1..n)] }

Plans == UNION { PlansOfLen(n) : n \in 0..MaxActions }

KeepsBefore_Mut(a, b) == a.priority - b.priority < 0

KeepsBefore_Descending(a, b) == b.priority - a.priority <= 0

\* The comparator of the sort in line 244: (a, b) => a.priority - b.priority;
\* a stays before b when the result is <= 0.
KeepsBefore(a, b) == a.priority - b.priority <= 0

RECURSIVE InsertSorted(_, _)
InsertSorted(s, a) ==
    IF s = <<>> THEN <<a>>
    ELSE IF KeepsBefore(Head(s), a)
         THEN <<Head(s)>> \o InsertSorted(Tail(s), a)
         ELSE <<a>> \o s

\* Array.prototype.sort with the comparator above: a stable sort.
RECURSIVE SortByPriority(_)
SortByPriority(s) ==
    IF s = <<>> THEN <<>>
    ELSE InsertSorted(SortByPriority(SubSeq(s, 1, Len(s) - 1)), s[Len(s)])

----------------------------------------------------------------------------
\* RebalanceStrategy, lines 68-73 (two of the five).
Strategies == {"yield_optimization", "risk_reduction"}

\* execution.results as line 220 creates it.
NewResults == [totalGasUsed |-> 0, totalValue |-> 0, apyImprovement |-> 0]

\* gasUsed as the adapters report it for an action (the withdraw of the
\* Ethereum adapter).
GasUsed == 150000

\* estimatedGas of an action as generateRebalanceActions sets it.
EstimatedGas == 100000

\* simulateExecution, lines 710-721; apyImprovement in tenths of a percent.
SimulateExecution(plan) ==
    [totalGasUsed |-> Len(plan) * EstimatedGas, totalValue |-> 1000,
     apyImprovement |-> 25]

\* calculateExecutionResults, lines 723-728; apyImprovement in tenths.
CalculateExecutionResults(res) ==
    [res EXCEPT !.apyImprovement = 20, !.totalValue = 1050]

\* RebalancingService before any executeRebalance call.
InitExec ==
    /\ walletAddress = "none"
    /\ strategy = "none"
    /\ results = NewResults
    /\ pc = "idle"
    /\ dryRun = FALSE
    /\ actions = <<>>
    /\ status = "none"
    /\ transactions = <<>>
    /\ idx = 0
    /\ error = "none"
    /\ completedAt = FALSE
    /\ executionQueue = {}
    /\ adapterCalls = <<>>
    /\ waitCalls = <<>>
    /\ emitted = <<>>
    /\ cancelSignal = 0

\* ChainSignatureService before any executeCrossChainTx call.
InitSig ==
    /\ sigPc = "idle"
    /\ sigChain = "none"
    /\ attempts = 0
    /\ signature = FALSE
    /\ requestCalls = 0
    /\ pollCalls = 0
    /\ targetCalls = 0
    /\ sigError = "none"

\* The wallets that get auto-rebalance settings, in the order they get them.
Wallets == <<"w1", "w2">>

\* Number of runs of checkAutoRebalanceTriggers the interval timer starts.
MaxTicks == 2

\* The monitor's clock runs over the days 0..MaxDays.
MaxDays == 1

\* Largest number of recommendations getRebalanceRecommendations returns.
MaxRecs == 1

Ticks == 1..MaxTicks

\* recommendations of a run that has not called getRebalanceRecommendations.
NoRecs == -1

\* The monitor before initialize(): loadAutoRebalanceSettings loads nothing
\* (lines 802-804) and no run of the interval timer has fired.
\* No catch block ran in the last step.
NoCatch == <<0, 0>>

InitMon ==
    /\ settings = <<>>
    /\ monNow = 0
    /\ tickPc = [t \in Ticks |-> "idle"]
    /\ tickWallet = [t \in Ticks |-> 0]
    /\ tickRecs = [t \in Ticks |-> NoRecs]
    /\ monExecutions = {}
    /\ tickDetached = [t \in Ticks |-> <<>>]
    /\ monUpdates = 0
    /\ caught = NoCatch
    /\ tickVisited = [t \in Ticks |-> {}]

\* Number of concurrent calls of getOrSet.
MaxCallers == 2

\* The cache's clock runs over 0..MaxClock steps of ClockStep milliseconds.
MaxClock == 3

Callers == 1..MaxCallers

Keys == {"k1", "k2"}

\* The key the concurrent calls of getOrSet race on.
RacedKey == "k1"

\* An absent entry: Map.get returns undefined.
NoEntry == [data |-> -1, timestamp |-> -1, ttl |-> -1]

\* No value: get returns null, or the call has not returned.
NoData == -1

\* A CacheManager after its constructor, lines 10-23: an empty map.
InitCache ==
    /\ cache = [k \in Keys |-> NoEntry]
    /\ cacheNow = 0
    /\ callerPc = [c \in Callers |-> "idle"]
    /\ callerSawLive = [c \in Callers |-> FALSE]
    /\ callerResult = [c \in Callers |-> NoData]
    /\ lastGet = [found |-> FALSE, hit |-> FALSE, overAge |-> FALSE]
    /\ swept = {}

\* An adapter before any waitForTransaction call.
InitWait ==
    /\ wtPc = "idle"
    /\ wtAdapter = "none"
    /\ wtInitialized = FALSE
    /\ wtReceipt = "none"
    /\ wtElapsed = 0

\* An absent (undefined) trigger of AutoRebalanceSettings.triggers.
Absent == -1

\* lastExecuted of settings the monitor has not executed yet (undefined).
NoDate == -1

\* Before any call of evaluateTriggers.
InitTrig ==
    /\ trigCalled = FALSE
    /\ trigSettings = [triggers |-> [timeInterval |-> Absent,
                                      apyDropThreshold |-> Absent,
                                      valueThreshold |-> Absent],
                       lastExecuted |-> NoDate]
    /\ trigPortfolio = [averageApy |-> 0, totalPnlPercentage |-> 0]
    /\ trigNow = 0
    /\ trigResult = FALSE

Init ==
    /\ InitExec
    /\ InitSig
    /\ InitMon
    /\ InitCache
    /\ InitWait
    /\ InitTrig

IsDryRun_Mut(flag) == FALSE

IsDryRun_Negated(flag) == ~flag

\* config.dryRun decides the branch of line 229.
IsDryRun(flag) == flag

\* Lines 213-231 with dryRun: the execution is created with status
\* 'completed' and simulateExecution is awaited.
ExecuteRebalanceDryRun ==
    /\ pc = "idle"
    /\ \E plan \in Plans, flag \in BOOLEAN, strat \in Strategies :
        /\ IsDryRun(flag)
        /\ dryRun' = flag
        /\ actions' = plan
        /\ strategy' = strat
    /\ walletAddress' = Wallets[1]
    /\ results' = NewResults
    /\ status' = "completed"
    /\ transactions' = <<>>
    /\ pc' = "simulating"
    /\ UNCHANGED <<idx, error, completedAt, executionQueue, adapterCalls,
                   waitCalls, emitted, cancelSignal>>
    /\ UNCHANGED nonExecVars

\* Lines 231-236: simulateExecution (a reduce over estimatedGas) resolves,
\* completedAt is set and the execution is returned.
SimulateExecutionReturn ==
    /\ pc = "simulating"
    /\ results' = SimulateExecution(actions)
    /\ completedAt' = TRUE
    /\ pc' = "returned"
    /\ UNCHANGED <<dryRun, actions, status, transactions, idx, error,
                   executionQueue, adapterCalls, waitCalls, emitted, cancelSignal,
                   walletAddress, strategy>>
    /\ UNCHANGED nonExecVars

LoopDone_Mut(i, n) == i >= n

\* The for-loop test of line 246 at position i of a plan of n actions.
LoopDone(i, n) == i > n

\* Head of the for-loop at position i (lines 246-247), or the code after the
\* loop (lines 267-272) when the plan is exhausted.  st is execution.status
\* on entry.
LoopHead(i, sorted, st) ==
    IF LoopDone(i, Len(sorted))
    THEN /\ status' = "completed"
         /\ completedAt' = TRUE
         /\ pc' = "calculating"
         /\ idx' = i
         /\ UNCHANGED adapterCalls
    ELSE /\ adapterCalls' = Append(adapterCalls, sorted[i].id)
         /\ pc' = "submitting"
         /\ idx' = i
         /\ status' = st
         /\ UNCHANGED completedAt

StoreExecution_Mut(queue, id) == queue

\* this.executionQueue.set(executionId, execution), line 241.
StoreExecution(queue, id) == queue \cup {id}

\* Lines 213-247 without dryRun: create the execution ('pending'), mark it
\* 'executing', store it, sort the plan in place and enter the loop, which
\* calls executeAction for the first action.
ExecuteRebalanceStart ==
    /\ pc = "idle"
    /\ \E plan \in Plans, flag \in BOOLEAN, strat \in Strategies :
        /\ ~IsDryRun(flag)
        /\ dryRun' = flag
        /\ actions' = SortByPriority(plan)
        /\ strategy' = strat
        /\ LoopHead(1, SortByPriority(plan), "executing")
    /\ walletAddress' = Wallets[1]
    /\ results' = NewResults
    /\ executionQueue' = StoreExecution(executionQueue, ExecId)
    /\ transactions' = <<>>
    /\ UNCHANGED <<error, waitCalls, emitted, cancelSignal>>
    /\ UNCHANGED nonExecVars

\* The catch block, lines 277-284.
CatchBlock(err) ==
    /\ status' = "failed"
    /\ error' = err
    /\ completedAt' = TRUE
    /\ emitted' = Append(emitted, "rebalanceFailed")
    /\ pc' = "returned"

NewRecord_Mut(a, hash) == [actionId |-> a, txHash |-> hash, status |-> "confirmed"]

\* The record of lines 249-254: a hash is named by the adapter call that
\* returned it.
NewRecord(a, hash) == [actionId |-> a, txHash |-> hash, status |-> "pending"]

\* Lines 247-257: executeAction resolves with a hash: the record is pushed
\* with status 'pending' and waitForConfirmation is called; or it rejects.
\* The record sits at the loop position of its action; actionId carries the
\* action's identity where the code stores the string type_priority.
ExecuteActionReturn ==
    /\ pc = "submitting"
    /\ \E ok \in BOOLEAN :
        IF ok
        THEN /\ transactions' = Append(transactions,
                    NewRecord(actions[idx].id, Len(adapterCalls)))
             /\ waitCalls' = Append(waitCalls, actions[idx].id)
             /\ pc' = "confirming"
             /\ UNCHANGED <<status, error, completedAt, emitted>>
        ELSE /\ CatchBlock("SubmissionError")
             /\ UNCHANGED <<transactions, waitCalls>>
    /\ UNCHANGED <<dryRun, actions, idx, executionQueue, adapterCalls, cancelSignal,
                   walletAddress, strategy, results>>
    /\ UNCHANGED nonExecVars

NextIndex_Mut(i) == i

\* The for...of iteration of line 246 moves to the next action.
NextIndex(i) == i + 1

\* Lines 257-272: waitForConfirmation resolves: the last record becomes
\* 'confirmed' and the loop goes on; or it rejects.
WaitForConfirmationReturn ==
    /\ pc = "confirming"
    /\ \E ok \in BOOLEAN :
        IF ok
        THEN /\ transactions' = [transactions EXCEPT
                    ![Len(transactions)].status = "confirmed"]
             /\ results' = [results EXCEPT !.totalGasUsed = @ + GasUsed]
             /\ LoopHead(NextIndex(idx), actions, status)
             /\ UNCHANGED <<error, emitted>>
        ELSE /\ CatchBlock("ConfirmationError")
             /\ UNCHANGED <<transactions, idx, adapterCalls, results>>
    /\ UNCHANGED <<dryRun, actions, executionQueue, waitCalls, cancelSignal,
                   walletAddress, strategy>>
    /\ UNCHANGED nonExecVars

\* Lines 272-275: calculateExecutionResults resolves and 'rebalanceCompleted'
\* is emitted inside the try block.  EventEmitter.emit calls the listeners
\* synchronously and rethrows what a listener throws, which lands in the
\* catch block of line 277.
CalculateExecutionResultsReturn ==
    /\ pc = "calculating"
    /\ \E listenerThrows \in BOOLEAN :
        IF listenerThrows
        THEN /\ status' = "failed"
             /\ error' = "ListenerError"
             /\ completedAt' = TRUE
             /\ emitted' = emitted \o <<"rebalanceCompleted", "rebalanceFailed">>
             /\ pc' = "returned"
        ELSE /\ emitted' = Append(emitted, "rebalanceCompleted")
             /\ pc' = "returned"
             /\ UNCHANGED <<status, error, completedAt>>
    /\ results' = CalculateExecutionResults(results)
    /\ UNCHANGED <<dryRun, actions, transactions, idx, executionQueue,
                   adapterCalls, waitCalls, cancelSignal, walletAddress, strategy>>
    /\ UNCHANGED nonExecVars

\* A caller asks for the cancellation of the execution while an adapter call
\* is in flight.  executeRebalance takes no cancellation token (lines
\* 203-210) and nothing in the service reads one: the request changes no
\* state of the execution.
CancelSignal ==
    /\ pc \in {"submitting", "confirming"}
    /\ cancelSignal = 0
    /\ cancelSignal' = actions[idx].id
    /\ UNCHANGED <<pc, dryRun, actions, status, transactions, idx, error,
                   completedAt, executionQueue, adapterCalls, waitCalls, emitted,
                   walletAddress, strategy, results>>
    /\ UNCHANGED nonExecVars

Next ==
    \/ ExecuteRebalanceDryRun
    \/ SimulateExecutionReturn
    \/ ExecuteRebalanceStart
    \/ ExecuteActionReturn
    \/ WaitForConfirmationReturn
    \/ CalculateExecutionResultsReturn
    \/ CancelSignal

Spec == Init /\ [][Next]_vars

----------------------------------------------------------------------------
(* Vocabulary of the properties *)

PlanIds == { actions[i].id : i \in 1..Len(actions) }

ActionById(a) == CHOOSE x \in { actions[i] : i \in 1..Len(actions) } : x.id = a

\* The dependencies of action b that are actions of the plan.
Deps(b) == ActionById(b).dependencies \cap PlanIds

RECURSIVE Ancestors(_, _)
Ancestors(S, k) ==
    IF k = 0 THEN S
    ELSE Ancestors(S \cup UNION { Deps(x) : x \in S }, k - 1)

\* Every action b depends on, directly or through other actions.
TransitiveDeps(b) == Ancestors(Deps(b), Len(actions))

Cyclic == \E a \in PlanIds : a \in TransitiveDeps(a)

HasRecord(a, st) ==
    \E k \in 1..Len(transactions) :
        transactions[k].actionId = a /\ transactions[k].status = st

Confirmed(a) == HasRecord(a, "confirmed")

Submitted(a) == \E k \in 1..Len(adapterCalls) : adapterCalls[k] = a

AllConfirmed == \A a \in PlanIds : Confirmed(a)

TerminalStatus == {"completed", "failed", "partial"}

\* The action whose adapter call rejected, 0 when none did.
FailedAction ==
    IF error \in {"SubmissionError", "ConfirmationError"} THEN actions[idx].id ELSE 0

----------------------------------------------------------------------------
(* Properties *)

\* C1: in an acyclic plan, an action B that lists A in its dependencies is
\* handed to a chain adapter only once A has a confirmed record.
C1_DependentAfterDependency ==
    ~Cyclic =>
        \A b \in PlanIds : Submitted(b) => \A a \in Deps(b) : Confirmed(a)

\* C2: when the execution has ended and action A failed, every action B that
\* depends on A has a record in state failed and was never handed to an
\* adapter.
C2_DependentMarkedFailed ==
    (pc = "returned" /\ ~Cyclic /\ FailedAction # 0) =>
        \A b \in PlanIds :
            FailedAction \in Deps(b) => (HasRecord(b, "failed") /\ ~Submitted(b))

\* C3: when the execution has ended and action A failed, every other action
\* that does not transitively depend on A has been handed to an adapter.
C3_IndependentStillAttempted ==
    (pc = "returned" /\ ~Cyclic /\ FailedAction # 0) =>
        \A b \in PlanIds \ {FailedAction} :
            FailedAction \notin TransitiveDeps(b) => Submitted(b)

\* C4 as claimed: an execution is completed exactly when every action of its
\* plan has a confirmed record.
C4_CompletedIffAllConfirmed ==
    status # "none" => (status = "completed" <=> AllConfirmed)

\* C4 as amended: an execution is completed only if it is a dry run, which has
\* no records, or every action of its plan has a confirmed record; and the
\* step of a real run that makes every action confirmed (or starts an empty
\* plan) sets the status completed.
C4_CompletedOnlyIfDryRunOrAllConfirmed ==
    [][ /\ status' = "completed" =>
            \/ dryRun' /\ transactions' = <<>>
            \/ AllConfirmed'
        /\ (~dryRun' /\ status' # "none" /\ AllConfirmed'
              /\ ~(status # "none" /\ AllConfirmed)) => status' = "completed"
      ]_vars

C4_Witness ==
    /\ ~dryRun
    /\ status = "completed"
    /\ Len(actions) = MaxActions
    /\ AllConfirmed

\* C5: no execution with status failed contains a confirmed record.
C5_FailedHasNoConfirmed ==
    status = "failed" =>
        \A k \in 1..Len(transactions) : transactions[k].status # "confirmed"

\* C6: an execution that ended with at least one action confirmed and at
\* least one not confirmed has status partial.
C6_MixedOutcomeIsPartial ==
    (pc = "returned" /\ (\E a \in PlanIds : Confirmed(a))
                     /\ (\E a \in PlanIds : ~Confirmed(a)))
        => status = "partial"

\* C7: a plan with a dependency cycle is rejected: nothing is handed to an
\* adapter and the execution is failed.
C7_CyclicPlanRejected ==
    (~dryRun /\ Cyclic) => (adapterCalls = <<>> /\ status = "failed")

\* C8: a dry run never calls a chain adapter operation (through which alone a
\* signature is requested) nor waitForTransaction, and its execution is
\* completed.
C8_DryRunCallsNothing ==
    dryRun => /\ adapterCalls = <<>>
              /\ waitCalls = <<>>
              /\ status = "completed"

C8_Witness ==
    /\ dryRun
    /\ pc = "returned"
    /\ Len(actions) = MaxActions

\* C9: once the status is terminal it never changes again.
C9_TerminalStatusIsFinal ==
    [][(status \in TerminalStatus) => (status' = status)]_vars

\* C10: when a cancellation was asked for while action A was in flight, A ends
\* cancelled: the execution never ends with A confirmed, nor completed.
C10_CancelStopsInFlightAction ==
    (pc = "returned" /\ cancelSignal # 0) =>
        /\ ~Confirmed(cancelSignal)
        /\ status # "completed"

----------------------------------------------------------------------------
(* ChainSignatureService.executeCrossChainTx (src/init.sql, lines 414-438): *)
(* one requestSignature, then the poll loop over getSignature.  The NEAR    *)
(* contract is the environment: request_signature resolves or rejects, and  *)
(* get_signature returns a signature, returns nothing or rejects.           *)

\* The attempts bound of the poll loop, line 421.
MaxAttempts == 30

\* ChainSignatureRequest.chain, line 325.
SigChains == {"ethereum", "bsc", "polygon"}

PollAgain_Mut(n) == TRUE

\* The loop test of line 421: while (attempts < 30).
PollAgain(n) == n < MaxAttempts

\* Line 416: executeCrossChainTx calls requestSignature.
ExecuteCrossChainTx ==
    /\ sigPc = "idle"
    /\ \E chain \in SigChains : sigChain' = chain
    /\ requestCalls' = requestCalls + 1
    /\ sigPc' = "requesting"
    /\ UNCHANGED <<attempts, signature, pollCalls, targetCalls, sigError>>
    /\ UNCHANGED nonSigVars

SignatureMissing_Mut(sig) == FALSE

\* The test of line 432: if (!signature).
SignatureMissing(sig) == ~sig

\* Top of the while loop with attempts = n (lines 421-423), or the code after
\* it (lines 432-437) when the attempts are used up: without a signature the
\* timeout error is thrown, otherwise executeOnTargetChain is called.
PollLoopHead(n) ==
    IF PollAgain(n)
    THEN /\ pollCalls' = pollCalls + 1
         /\ sigPc' = "polling"
         /\ UNCHANGED <<sigError, targetCalls>>
    ELSE IF SignatureMissing(signature)
         THEN /\ sigError' = "Timeout waiting for signature"
              /\ sigPc' = "failed"
              /\ UNCHANGED <<pollCalls, targetCalls>>
         ELSE /\ targetCalls' = targetCalls + 1
              /\ sigPc' = "returned"
              /\ UNCHANGED <<pollCalls, sigError>>

\* Lines 369-389 and 416-423: requestSignature resolves with the request id
\* and the loop starts with attempts = 0; or it rethrows the contract's
\* error, which executeCrossChainTx does not catch.
RequestSignatureReturn ==
    /\ sigPc = "requesting"
    /\ \E ok \in BOOLEAN :
        IF ok
        THEN PollLoopHead(attempts)
        ELSE /\ sigError' = "RequestError"
             /\ sigPc' = "failed"
             /\ UNCHANGED <<pollCalls, targetCalls>>
    /\ UNCHANGED <<sigChain, attempts, signature, requestCalls>>
    /\ UNCHANGED nonSigVars

\* Lines 394-409 and 423-437: getSignature returns a signature: the loop is
\* left, executeOnTargetChain is called and its hash returned.  Or it throws
\* ('Signature not ready yet' or the contract's error), the loop's catch
\* swallows it and the 2 second sleep starts.
GetSignatureReturn ==
    /\ sigPc = "polling"
    /\ \E ready \in BOOLEAN :
        IF ready
        THEN /\ signature' = TRUE
             /\ targetCalls' = targetCalls + 1
             /\ sigPc' = "returned"
        ELSE /\ sigPc' = "sleeping"
             /\ UNCHANGED <<signature, targetCalls>>
    /\ UNCHANGED <<sigChain, attempts, requestCalls, pollCalls, sigError>>
    /\ UNCHANGED nonSigVars

\* Lines 428-434: the sleep is over, attempts++ and back to the loop test.
SleepReturn ==
    /\ sigPc = "sleeping"
    /\ attempts' = attempts + 1
    /\ PollLoopHead(attempts + 1)
    /\ UNCHANGED <<sigChain, signature, requestCalls>>
    /\ UNCHANGED nonSigVars

NextSig ==
    \/ ExecuteCrossChainTx
    \/ RequestSignatureReturn
    \/ GetSignatureReturn
    \/ SleepReturn

SpecSig == Init /\ [][NextSig]_vars

\* Every await of executeCrossChainTx is a NEAR RPC promise or a timer, which
\* settles: a call that can go on does go on.
SpecSigFair == SpecSig /\ WF_vars(NextSig)

SigDone == sigPc \in {"returned", "failed"}

\* C11 as claimed: one requestSignature, at most 30 polls, and the call ends
\* either returning after the poll that gave a signature or failing with the
\* signature timeout once the 30 attempts are used up.
C11_OneRequestBoundedPollsTwoOutcomes ==
    /\ requestCalls <= 1
    /\ pollCalls <= MaxAttempts
    /\ sigPc = "returned" => signature
    /\ sigPc = "failed" =>
        (sigError = "Timeout waiting for signature" /\ pollCalls = MaxAttempts)

\* C11 as amended: one requestSignature, at most 30 polls, and the call always
\* ends: returning after the first poll that gave a signature, failing with
\* the signature timeout once the 30 attempts are used up, or failing with
\* the error of requestSignature before any poll.
C11_OneRequestBoundedPollsTerminates ==
    /\ [](/\ requestCalls <= 1
          /\ sigPc # "idle" => requestCalls = 1
          /\ pollCalls <= MaxAttempts
          /\ sigPc = "returned" => (signature /\ pollCalls = attempts + 1)
          /\ sigPc = "failed" =>
                \/ /\ sigError = "Timeout waiting for signature"
                   /\ pollCalls = MaxAttempts
                   /\ ~signature
                \/ /\ sigError = "RequestError"
                   /\ pollCalls = 0)
    /\ <>SigDone

C11_Witness ==
    /\ sigPc = "failed"
    /\ sigError = "Timeout waiting for signature"
    /\ pollCalls = MaxAttempts

\* C12: within one execution no action is handed to a chain adapter, nor to
\* waitForConfirmation, more than once, and once an action's call has failed
\* the execution has ended: nothing is submitted again.
C12_AtMostOneSubmissionPerAction ==
    /\ \A a \in PlanIds :
        /\ Cardinality({ k \in 1..Len(adapterCalls) : adapterCalls[k] = a }) <= 1
        /\ Cardinality({ k \in 1..Len(waitCalls) : waitCalls[k] = a }) <= 1
    /\ FailedAction # 0 => pc = "returned"

C12_Witness ==
    /\ pc = "returned"
    /\ Len(adapterCalls) = MaxActions
    /\ FailedAction # 0

----------------------------------------------------------------------------
(* The auto-rebalance trigger monitor: setupAutoRebalance and the runs of   *)
(* checkAutoRebalanceTriggers that the interval timer of line 742 starts.   *)
(* setInterval does not wait for the promise of the previous run, so runs   *)
(* overlap whenever one is still suspended when the timer fires again.      *)
(* The position service and the recommendation generator are the            *)
(* environment; an execution started by a run is in flight from the call    *)
(* of executeRebalance until it returns.                                    *)

\* AutoRebalanceSettings.triggers, lines 106-111, as the wallets of the
\* monitor get them: every trigger set, or none.
TriggerChoices ==
    { [timeInterval |-> 1, apyDropThreshold |-> 5, valueThreshold |-> 10],
      [timeInterval |-> Absent, apyDropThreshold |-> Absent, valueThreshold |-> Absent] }

\* What getPortfolioSummary resolves with, as far as evaluateTriggers reads it.
Portfolios ==
    { [averageApy |-> 3, totalPnlPercentage |-> 2],
      [averageApy |-> 8, totalPnlPercentage |-> -12],
      [averageApy |-> 8, totalPnlPercentage |-> 2] }

Abs(x) == IF x < 0 THEN -x ELSE x

\* The truthiness of an optional number in the tests of lines 779, 787 and
\* 792: undefined and 0 are falsy.
Truthy(x) == x # Absent /\ x # 0

\* evaluateTriggers, lines 775-800.
EvaluateTriggers(portfolio, st, now) ==
    \/ /\ Truthy(st.triggers.timeInterval)
       /\ st.lastExecuted # NoDate
       /\ now - st.lastExecuted >= st.triggers.timeInterval
    \/ /\ Truthy(st.triggers.apyDropThreshold)
       /\ portfolio.averageApy < st.triggers.apyDropThreshold
    \/ /\ Truthy(st.triggers.valueThreshold)
       /\ Abs(portfolio.totalPnlPercentage) >= st.triggers.valueThreshold

\* setupAutoRebalance, lines 385-399, for the next wallet without settings.
SetupAutoRebalance ==
    /\ Len(settings) < Len(Wallets)
    /\ \E w \in {Wallets[Len(settings) + 1]}, en \in BOOLEAN,
          strat \in Strategies, trig \in TriggerChoices :
        settings' = Append(settings,
            [walletAddress |-> w, enabled |-> en, strategy |-> strat,
             triggers |-> trig, lastExecuted |-> NoDate])
    /\ caught' = NoCatch
    /\ UNCHANGED <<monNow, tickPc, tickWallet, tickRecs, monExecutions,
                   tickDetached, monUpdates, tickVisited>>
    /\ UNCHANGED nonMonVars

\* Time passes.
ClockAdvance ==
    /\ monNow < MaxDays
    /\ monNow' = monNow + 1
    /\ caught' = NoCatch
    /\ UNCHANGED <<settings, tickPc, tickWallet, tickRecs, monExecutions,
                   tickDetached, monUpdates, tickVisited>>
    /\ UNCHANGED nonMonVars

\* Positions after i of the settings that the loop does not skip (line 749).
EnabledAfter(i, sts) == { j \in (i + 1)..Len(sts) : sts[j].enabled }

Min(S) == CHOOSE x \in S : \A y \in S : x <= y

\* The for-loop of line 748 moves on from position i: it skips the disabled
\* settings and calls getPortfolioSummary for the next enabled wallet, or the
\* run ends.  sts is the settings table and det the detached objects as this
\* step leaves them; the run lets go of the object of position i.
MoveOn(t, i, sts, det) ==
    /\ tickDetached' = [det EXCEPT ![t] = <<>>]
    /\ IF EnabledAfter(i, sts) = {}
       THEN /\ tickPc' = [tickPc EXCEPT ![t] = "done"]
            /\ tickWallet' = [tickWallet EXCEPT ![t] = Len(sts)]
            /\ UNCHANGED tickVisited
       ELSE /\ tickPc' = [tickPc EXCEPT ![t] = "portfolio"]
            /\ tickWallet' = [tickWallet EXCEPT ![t] = Min(EnabledAfter(i, sts))]
            /\ tickVisited' = [tickVisited EXCEPT
                    ![t] = @ \cup {Min(EnabledAfter(i, sts))}]

\* The settings object that run t took from the iterator at line 748: the one
\* the map still holds for that position, or the one it held before it was
\* replaced.
Held(t) ==
    IF tickDetached[t] = <<>> THEN settings[tickWallet[t]]
    ELSE tickDetached[t][1].obj

AfterCatch_Mut(t, i, sts, det) ==
    /\ tickDetached' = [det EXCEPT ![t] = <<>>]
    /\ tickPc' = [tickPc EXCEPT ![t] = "done"]
    /\ tickWallet' = [tickWallet EXCEPT ![t] = Len(sts)]
    /\ UNCHANGED tickVisited

\* Lines 769-771: the catch block is inside the body of the for-loop, so the
\* loop goes on with the next entry.
AfterCatch(t, i, sts, det) == MoveOn(t, i, sts, det)

\* Lines 742-752: the interval timer fires and a run starts.
MonitorTick(t) ==
    /\ tickPc[t] = "idle"
    /\ t > 1 => tickPc[t - 1] # "idle"
    /\ MoveOn(t, 0, settings, tickDetached)
    /\ caught' = NoCatch
    /\ UNCHANGED <<settings, monNow, tickRecs, monExecutions, monUpdates>>
    /\ UNCHANGED nonMonVars

\* Lines 752-756 and 769-771: getPortfolioSummary rejects and the catch block
\* logs it; or it resolves, evaluateTriggers decides, and on true
\* getRebalanceRecommendations is called.
PortfolioReturn(t) ==
    /\ tickPc[t] = "portfolio"
    /\ LET i == tickWallet[t]
       IN \/ /\ AfterCatch(t, i, settings, tickDetached)
             /\ caught' = <<t, i>>
          \/ /\ \E portfolio \in Portfolios :
                  IF EvaluateTriggers(portfolio, Held(t), monNow)
                  THEN /\ tickPc' = [tickPc EXCEPT ![t] = "recommend"]
                       /\ UNCHANGED <<tickWallet, tickDetached, tickVisited>>
                  ELSE MoveOn(t, i, settings, tickDetached)
             /\ caught' = NoCatch
    /\ UNCHANGED <<settings, monNow, tickRecs, monExecutions, monUpdates>>
    /\ UNCHANGED nonMonVars

HasRecommendation_Mut(n) == n >= 0

\* The test of line 757: recommendations.length > 0.
HasRecommendation(n) == n > 0

\* Lines 756-763: getRebalanceRecommendations resolves with n recommendations
\* (none also when it caught an error, line 199); with at least one,
\* executeRebalance is called with the strategy of the settings and the
\* actions of the first recommendation.
RecommendationsReturn(t) ==
    /\ tickPc[t] = "recommend"
    /\ LET i == tickWallet[t]
           w == settings[i].walletAddress
       IN \E n \in 0..MaxRecs :
            /\ tickRecs' = [tickRecs EXCEPT ![t] = n]
            /\ IF HasRecommendation(n)
               THEN /\ monExecutions' = monExecutions \cup
                          {[walletAddress |-> w, strategy |-> Held(t).strategy,
                            tick |-> t, status |-> "executing"]}
                    /\ tickPc' = [tickPc EXCEPT ![t] = "executing"]
                    /\ UNCHANGED <<tickWallet, tickDetached, tickVisited>>
               ELSE /\ MoveOn(t, i, settings, tickDetached)
                    /\ UNCHANGED monExecutions
    /\ caught' = NoCatch
    /\ UNCHANGED <<settings, monNow, monUpdates>>
    /\ UNCHANGED nonMonVars

\* The execution whose return run t awaits at line 758.
AwaitedExecution(t) ==
    CHOOSE e \in monExecutions : e.tick = t /\ e.status = "executing"

\* Line 765 as it leaves the settings table: the assignment goes to the
\* object run t holds, which is the stored one unless that was replaced.
SetLastExecuted(t, now) ==
    IF tickDetached[t] = <<>>
    THEN [settings EXCEPT ![tickWallet[t]].lastExecuted = now]
    ELSE settings

\* Line 765 as it leaves the detached objects: every run that holds the same
\* replaced object as run t sees the assignment.
SetLastExecutedDetached(t, now) ==
    IF tickDetached[t] = <<>>
    THEN tickDetached
    ELSE [u \in Ticks |->
            IF tickDetached[u] # <<>> /\ tickDetached[u][1].gen = tickDetached[t][1].gen
            THEN <<[tickDetached[u][1] EXCEPT !.obj.lastExecuted = now]>>
            ELSE tickDetached[u]]

\* Lines 758-766: executeRebalance returns its execution, completed or failed
\* (it catches its own errors); lastExecuted is set and the loop moves on.
ExecuteRebalanceReturn(t) ==
    /\ tickPc[t] = "executing"
    /\ LET i == tickWallet[t]
           sts == SetLastExecuted(t, monNow)
       IN /\ \E st \in {"completed", "failed"} :
                monExecutions' = (monExecutions \ {AwaitedExecution(t)}) \cup
                    {[AwaitedExecution(t) EXCEPT !.status = st]}
          /\ settings' = sts
          /\ tickRecs' = [tickRecs EXCEPT ![t] = NoRecs]
          /\ MoveOn(t, i, sts, SetLastExecutedDetached(t, monNow))
    /\ caught' = NoCatch
    /\ UNCHANGED <<monNow, monUpdates>>
    /\ UNCHANGED nonMonVars

NextMon ==
    \/ SetupAutoRebalance
    \/ ClockAdvance
    \/ \E t \in Ticks : MonitorTick(t)
    \/ \E t \in Ticks : PortfolioReturn(t)
    \/ \E t \in Ticks : RecommendationsReturn(t)
    \/ \E t \in Ticks : ExecuteRebalanceReturn(t)

SpecMon == Init /\ [][NextMon]_vars

\* Number of replacements of a stored settings object.
MaxUpdates == 1

\* The updates argument of updateAutoRebalanceSettings.
UpdateChoices ==
    {[enabled |-> FALSE]} \cup { [strategy |-> s] : s \in Strategies }

\* Line 411: { ...current, ...updates }.
Merge(current, updates) ==
    [f \in DOMAIN current |->
        IF f \in DOMAIN updates THEN updates[f] ELSE current[f]]

\* The runs that hold the stored object of position i: they are suspended in
\* the body of the loop for that entry.
HoldersOf(i) ==
    { u \in Ticks : /\ tickPc[u] \in {"portfolio", "recommend", "executing"}
                    /\ tickWallet[u] = i
                    /\ tickDetached[u] = <<>> }

\* autoRebalanceSettings.set on a key the map has (lines 395, 412): the entry
\* keeps its place in the iteration order and gets the object new; the runs
\* that hold the object it had keep that one (gen tells the replaced objects
\* apart, at records where the holder was suspended).
ReplaceSettings(i, new) ==
    /\ settings' = [settings EXCEPT ![i] = new]
    /\ tickDetached' = [u \in Ticks |->
            IF u \in HoldersOf(i)
            THEN <<[obj |-> settings[i], gen |-> monUpdates + 1,
                    at |-> tickPc[u]]>>
            ELSE tickDetached[u]]
    /\ monUpdates' = monUpdates + 1

\* Lines 405-412: updateAutoRebalanceSettings for a wallet that has settings,
\* up to its first await.
UpdateAutoRebalanceSettings(i) ==
    /\ monUpdates < MaxUpdates
    /\ i \in 1..Len(settings)
    /\ \E updates \in UpdateChoices :
          ReplaceSettings(i, Merge(settings[i], updates))
    /\ caught' = NoCatch
    /\ UNCHANGED <<monNow, tickPc, tickWallet, tickRecs, monExecutions,
                   tickVisited>>
    /\ UNCHANGED nonMonVars

\* Lines 385-395: setupAutoRebalance for a wallet that has settings already,
\* up to its first await; the config is the one given before and carries no
\* lastExecuted.
SetupAutoRebalanceAgain(i) ==
    /\ monUpdates < MaxUpdates
    /\ i \in 1..Len(settings)
    /\ ReplaceSettings(i, [settings[i] EXCEPT !.lastExecuted = NoDate])
    /\ caught' = NoCatch
    /\ UNCHANGED <<monNow, tickPc, tickWallet, tickRecs, monExecutions,
                   tickVisited>>
    /\ UNCHANGED nonMonVars

NextMonUpd ==
    \/ NextMon
    \/ \E i \in 1..Len(Wallets) : UpdateAutoRebalanceSettings(i)
    \/ \E i \in 1..Len(Wallets) : SetupAutoRebalanceAgain(i)

\* The monitor together with callers that replace stored settings.
SpecMonUpd == Init /\ [][NextMonUpd]_vars

\* The monitor-started executions of wallet w that are in flight.
InFlight(w) ==
    { e \in monExecutions :
        e.walletAddress = w /\ e.status \in {"pending", "executing"} }

\* C13: at no time does a wallet have more than one monitor-initiated
\* execution in status pending or executing, whatever the interleaving of
\* the runs of the monitor.
C13_OneInFlightPerWallet ==
    \A i \in 1..Len(Wallets) : Cardinality(InFlight(Wallets[i])) <= 1

\* Run t leaves line 756 in this step: its trigger was true and
\* getRebalanceRecommendations has resolved.
TriggerDecided(t) == tickPc[t] = "recommend" /\ tickPc'[t] # "recommend"

\* This step starts exactly one execution: for the wallet run t is at, with
\* the strategy of that wallet's settings.
StartsOneFor(t) ==
    /\ Cardinality(monExecutions' \ monExecutions) = 1
    /\ \E e \in monExecutions' \ monExecutions :
        /\ e.tick = t
        /\ e.walletAddress = settings[tickWallet[t]].walletAddress
        /\ e.strategy = settings[tickWallet[t]].strategy

\* No run has started two executions for one wallet.
OnePerTickAndWallet ==
    \A e1, e2 \in monExecutions :
        (e1.tick = e2.tick /\ e1.walletAddress = e2.walletAddress) => e1 = e2

\* C14 as stated: when a trigger predicate is true for an enabled wallet in a
\* run, exactly one execution is started for that wallet in that run, with
\* the strategy of the wallet's settings.
C14_TriggerStartsExactlyOne ==
    /\ []OnePerTickAndWallet
    /\ [][\A t \in Ticks : TriggerDecided(t) => StartsOneFor(t)]_vars

\* C14 amended: a true trigger starts exactly one execution, with the
\* strategy of the settings, when at least one recommendation came back, and
\* none when the list is empty; a run never starts two for one wallet.
C14_TriggerStartsOneIfRecommended ==
    /\ []OnePerTickAndWallet
    /\ [][\A t \in Ticks : TriggerDecided(t) =>
            IF tickRecs'[t] > 0
            THEN StartsOneFor(t)
            ELSE monExecutions' = monExecutions]_vars

\* One run is awaiting the execution it started on a non-empty list while
\* another has finished after a true trigger with an empty list.
C14_Witness ==
    \E t1, t2 \in Ticks :
        /\ tickPc[t1] = "executing" /\ tickRecs[t1] > 0
        /\ \E e \in monExecutions : e.tick = t1 /\ e.status = "executing"
        /\ tickPc[t2] = "done" /\ tickRecs[t2] = 0
        /\ ~ \E e \in monExecutions : e.tick = t2

\* This step is the catch block of run t, entered at position i.
Catches(t, i) == caught' = <<t, i>> /\ caught' # caught

\* A run that has ended has called getPortfolioSummary for every enabled
\* entry of the table it iterated.
EndedRunsVisitedAll ==
    \A t \in Ticks : tickPc[t] = "done" =>
        \A j \in 1..tickWallet[t] : settings[j].enabled => j \in tickVisited[t]

\* The object run t holds is the stored one, or it was replaced while the
\* run was awaiting executeRebalance.
ReplacedOnlyWhileExecuting(t) ==
    tickDetached[t] = <<>> \/ tickDetached[t][1].at = "executing"

\* C26: when the monitor's execution for a wallet has returned, the settings
\* stored for that wallet carry the new lastExecuted time, also when
\* setupAutoRebalance or updateAutoRebalanceSettings stored another object
\* for the wallet while the execution was in progress.
C26_StoredSettingsCarryLastExecuted ==
    [][\A t \in Ticks :
        (/\ tickPc[t] = "executing" /\ tickPc'[t] # "executing"
         /\ ReplacedOnlyWhileExecuting(t)) =>
            settings'[tickWallet[t]].lastExecuted = monNow]_vars

\* C27: an error caught while one wallet is evaluated does not end the run:
\* the run goes on with the next enabled wallet of the table, a run that has
\* ended has evaluated every enabled wallet, and the catch block leaves the
\* settings, lastExecuted included, as they were.
C27_ErrorDoesNotStopTheRun ==
    /\ []EndedRunsVisitedAll
    /\ [][\A t \in Ticks, i \in 1..Len(Wallets) : Catches(t, i) =>
            /\ settings' = settings
            /\ IF EnabledAfter(i, settings) = {}
               THEN tickPc'[t] = "done"
               ELSE /\ tickPc'[t] = "portfolio"
                    /\ tickWallet'[t] = Min(EnabledAfter(i, settings))
                    /\ tickWallet'[t] \in tickVisited'[t]]_vars

\* A run caught an error at the first wallet, whose lastExecuted is still
\* unset, and is now evaluating the last enabled wallet of the table.
C27_Witness ==
    \E t \in Ticks :
        /\ caught = <<t, 1>>
        /\ settings[1].lastExecuted = NoDate
        /\ tickPc[t] = "portfolio" /\ tickWallet[t] = Len(Wallets)
        /\ tickVisited[t] = {1, Len(Wallets)}

----------------------------------------------------------------------------
(* CacheManager (src/unnamed/part_013).  get, set, touch and cleanup have   *)
(* no await in their bodies, so each runs to completion as one step;        *)
(* getOrSet is suspended while its fetchFunction is pending.  Every key of  *)
(* one manager carries the same namespace prefix (getKey, lines 25-27), so  *)
(* the prefix test of cleanup holds for every entry.  A value is named by   *)
(* who produced it: the getOrSet call c, or 0 for a direct set.             *)

\* Date.now() moves by this many milliseconds at a time.
ClockStep == 500

\* Milliseconds per second, line 31.
MsPerSecond == 1000

\* The ttlSeconds that callers pass.
Ttls == {0, 1}

IsExpired_Never(entry, now) == FALSE

IsExpired_Inclusive(entry, now) ==
    (now - entry.timestamp) >= (entry.ttl * MsPerSecond)

\* isExpired, lines 29-32.
IsExpired(entry, now) == (now - entry.timestamp) > (entry.ttl * MsPerSecond)

\* The map after get(k), lines 34-51: an expired entry is deleted.
AfterGet(k) ==
    IF cache[k] # NoEntry /\ IsExpired(cache[k], cacheNow)
    THEN [cache EXCEPT ![k] = NoEntry]
    ELSE cache

\* What get(k) returns, lines 34-51.
GetResult(k) ==
    IF cache[k] = NoEntry \/ IsExpired(cache[k], cacheNow)
    THEN NoData
    ELSE cache[k].data

\* The age of the entry exceeds its ttl.
OverAge(entry, now) == now - entry.timestamp > entry.ttl * MsPerSecond

\* What a get of key k found and answered.
GetRecord(k) ==
    [found |-> cache[k] # NoEntry,
     hit |-> GetResult(k) # NoData,
     overAge |-> cache[k] # NoEntry /\ OverAge(cache[k], cacheNow)]

\* The map after set(k, data, ttl), lines 53-63.
AfterSet(m, k, data, ttl) ==
    [m EXCEPT ![k] = [data |-> data, timestamp |-> cacheNow, ttl |-> ttl]]

\* Time passes.
CacheClockAdvance ==
    /\ cacheNow < MaxClock * ClockStep
    /\ cacheNow' = cacheNow + ClockStep
    /\ UNCHANGED <<cache, callerPc, callerSawLive,
                   callerResult, lastGet, swept>>
    /\ UNCHANGED nonCacheVars

\* get(key), lines 34-51.
CacheGet ==
    /\ \E k \in Keys :
        /\ cache' = AfterGet(k)
        /\ lastGet' = GetRecord(k)
    /\ UNCHANGED <<cacheNow, callerPc, callerSawLive,
                   callerResult, swept>>
    /\ UNCHANGED nonCacheVars

\* set(key, data, ttlSeconds), lines 53-63.
CacheSet ==
    /\ \E k \in Keys, ttl \in Ttls : cache' = AfterSet(cache, k, 0, ttl)
    /\ UNCHANGED <<cacheNow, callerPc, callerSawLive,
                   callerResult, lastGet, swept>>
    /\ UNCHANGED nonCacheVars

\* touch(key, ttlSeconds?), lines 200-215; ttl -1 stands for undefined.
CacheTouch ==
    /\ \E k \in Keys, ttl \in Ttls \cup {-1} :
        IF cache[k] = NoEntry \/ IsExpired(cache[k], cacheNow)
        THEN UNCHANGED cache
        ELSE cache' = [cache EXCEPT
                 ![k].timestamp = cacheNow,
                 ![k].ttl = IF ttl # -1 THEN ttl ELSE @]
    /\ UNCHANGED <<cacheNow, callerPc, callerSawLive,
                   callerResult, lastGet, swept>>
    /\ UNCHANGED nonCacheVars

\* The keys cleanup collects in keysToDelete, lines 222-226.
KeysToDelete ==
    { k \in Keys : cache[k] # NoEntry /\ IsExpired(cache[k], cacheNow) }

\* cleanup, lines 217-233, as the interval timer of lines 18-20 runs it.
CacheCleanup ==
    /\ cache' = [k \in Keys |-> IF k \in KeysToDelete THEN NoEntry ELSE cache[k]]
    /\ swept' = { OverAge(cache[k], cacheNow) : k \in KeysToDelete }
    /\ UNCHANGED <<cacheNow, callerPc, callerSawLive,
                   callerResult, lastGet>>
    /\ UNCHANGED nonCacheVars

\* getOrSet up to its fetchFunction, lines 142-153: the body of get runs at
\* the call; a hit is returned, a miss invokes the fetchFunction.
GetOrSetCall(c) ==
    /\ callerPc[c] = "idle"
    /\ c > 1 => callerPc[c - 1] # "idle"
    /\ LET k == RacedKey IN
        /\ callerSawLive' = [callerSawLive EXCEPT ![c] =
               cache[k] # NoEntry /\ ~OverAge(cache[k], cacheNow)]
        /\ cache' = AfterGet(k)
        /\ lastGet' = GetRecord(k)
        /\ IF GetResult(k) # NoData
           THEN /\ callerPc' = [callerPc EXCEPT ![c] = "returned"]
                /\ callerResult' = [callerResult EXCEPT ![c] = GetResult(k)]
           ELSE /\ callerPc' = [callerPc EXCEPT ![c] = "fetching"]
                /\ UNCHANGED callerResult
    /\ UNCHANGED <<cacheNow, swept>>
    /\ UNCHANGED nonCacheVars

\* getOrSet from its fetchFunction on, lines 154-157: the fetchFunction
\* resolves, the value is stored and returned; or it rejects and so does
\* getOrSet, storing nothing.  The ttlSeconds of the call is first read
\* here, so it is chosen here.
FetchReturn(c) ==
    /\ callerPc[c] = "fetching"
    /\ \/ /\ \E ttl \in Ttls : cache' = AfterSet(cache, RacedKey, c, ttl)
          /\ callerResult' = [callerResult EXCEPT ![c] = c]
          /\ callerPc' = [callerPc EXCEPT ![c] = "returned"]
       \/ /\ callerPc' = [callerPc EXCEPT ![c] = "failed"]
          /\ UNCHANGED <<cache, callerResult>>
    /\ UNCHANGED <<cacheNow, callerSawLive, lastGet, swept>>
    /\ UNCHANGED nonCacheVars

NextCache ==
    \/ CacheClockAdvance
    \/ CacheGet
    \/ CacheSet
    \/ CacheTouch
    \/ CacheCleanup
    \/ \E c \in Callers : GetOrSetCall(c)
    \/ \E c \in Callers : FetchReturn(c)

SpecCache == Init /\ [][NextCache]_vars

\* Call c of getOrSet has invoked its fetchFunction.
Invoked(c) ==
    \/ callerPc[c] \in {"fetching", "failed"}
    \/ callerPc[c] = "returned" /\ callerResult[c] = c

\* C15: every call of getOrSet that began while the key had no live entry
\* (absent, or already over age) invokes the producer, and what it returns
\* is the value its own producer made after the call began, however the
\* calls overlap.
C15_CallerGetsValueProducedAfterCall ==
    \A c \in Callers :
        (callerPc[c] # "idle" /\ ~callerSawLive[c]) =>
            /\ Invoked(c)
            /\ callerPc[c] = "returned" => callerResult[c] = c

\* Two calls that began with no live entry overlap: the first is still
\* fetching when the second has returned its own value.
C15_Witness ==
    /\ MaxCallers >= 2
    /\ callerPc[1] = "fetching" /\ ~callerSawLive[1]
    /\ callerPc[2] = "returned" /\ ~callerSawLive[2] /\ callerResult[2] = 2

\* C16: get answers with the data of an entry exactly when the entry's age
\* does not exceed its ttl, whatever get, set, touch and cleanup did before;
\* and cleanup removes only entries whose age exceeds their ttl.
C16_GetAndSweepRespectTtl ==
    /\ lastGet.found => (lastGet.hit <=> ~lastGet.overAge)
    /\ \A wasOverAge \in swept : wasOverAge

\* A get has refused an over-age entry and a sweep has removed one, while
\* an entry written later is still in the map.
C16_Witness ==
    /\ lastGet.found /\ ~lastGet.hit /\ lastGet.overAge
    /\ swept # {}
    /\ \E k \in Keys : cache[k] # NoEntry /\ cache[k].timestamp > 0

----------------------------------------------------------------------------
\* The plan is in the order it was created with: action i at position i.
PlanAsCreated == \A i \in 1..Len(actions) : actions[i].id = i

\* The plan is in ascending priority, equal priorities in creation order.
SortedStable ==
    \A i, j \in 1..Len(actions) :
        i < j => \/ actions[i].priority < actions[j].priority
                 \/ /\ actions[i].priority = actions[j].priority
                    /\ actions[i].id < actions[j].id

\* C17 as stated: once the execution exists, its walletAddress, strategy and
\* plan never change, and nothing but records, status, completedAt and error
\* is modified (the id is the fixed ExecId).
C17_OnlyListedFieldsChange ==
    /\ [](status # "none" => PlanAsCreated)
    /\ [][status # "none" =>
            /\ walletAddress' = walletAddress
            /\ strategy' = strategy
            /\ actions' = actions
            /\ results' = results]_vars

\* C17 amended: walletAddress and strategy never change and the plan keeps
\* exactly the actions it was created with, none added, removed or repeated;
\* a real run holds them sorted by priority from its start on, a dry run in
\* creation order; results is left free to change.
C17_HeaderAndActionSetFixed ==
    /\ [](status # "none" =>
            /\ PlanIds = 1..Len(actions)
            /\ IF dryRun THEN PlanAsCreated ELSE SortedStable)
    /\ [][status # "none" =>
            /\ walletAddress' = walletAddress
            /\ strategy' = strategy
            /\ actions' = actions]_vars

\* A real run of a full plan has returned with the plan reordered and the
\* results filled in.
C17_Witness ==
    /\ pc = "returned" /\ ~dryRun /\ status = "completed"
    /\ Len(actions) = MaxActions
    /\ ~PlanAsCreated
    /\ results # NewResults

----------------------------------------------------------------------------
(* waitForTransaction of the chain adapters.  The BSC and Polygon adapters  *)
(* await provider.waitForTransaction(txHash) with no confirmation count and *)
(* no timeout, which settles only once the chain has a receipt for the      *)
(* transaction; the Ethereum adapter and the NEAR adapter of part_006 await *)
(* a two-second timer.  The chain is the environment: nothing obliges it to *)
(* report a transaction.                                                    *)

\* Time is followed for 0..MaxElapsed steps of WaitStep milliseconds.
MaxElapsed == 6

WaitStep == 500

\* The delay of the timer the Ethereum and NEAR adapters await.
TimerDelay == 2000

ProviderAdapters == {"bsc", "polygon"}

TimerAdapters == {"ethereum", "near"}

\* waitForTransaction is called: an adapter that is not initialized throws at
\* once (part_004 lines 480-482), otherwise the call awaits its provider or
\* its timer.
WaitForTransactionCall ==
    /\ wtPc = "idle"
    /\ \E adapter \in ProviderAdapters \cup TimerAdapters, init \in BOOLEAN :
        /\ wtAdapter' = adapter
        /\ wtInitialized' = init
        /\ wtPc' = IF init THEN "waiting" ELSE "failed"
    /\ UNCHANGED <<wtReceipt, wtElapsed>>
    /\ UNCHANGED nonWaitVars

\* The chain includes the transaction and has a receipt for it: success
\* (status 1) or reverted (status 0).
ChainReports ==
    /\ wtPc = "waiting"
    /\ wtReceipt = "none"
    /\ \E receipt \in {"success", "reverted"} : wtReceipt' = receipt
    /\ UNCHANGED <<wtPc, wtAdapter, wtInitialized, wtElapsed>>
    /\ UNCHANGED nonWaitVars

\* Time passes while the call waits.
WaitTimeAdvance ==
    /\ wtPc = "waiting"
    /\ wtElapsed < MaxElapsed * WaitStep
    /\ wtElapsed' = wtElapsed + WaitStep
    /\ UNCHANGED <<wtPc, wtAdapter, wtInitialized, wtReceipt>>
    /\ UNCHANGED nonWaitVars

\* part_004 lines 486-490 and part_007 lines 361-365: the provider resolves
\* with the receipt; status 0 throws 'Transaction failed'.
ProviderResolves ==
    /\ wtPc = "waiting"
    /\ wtAdapter \in ProviderAdapters
    /\ wtReceipt # "none"
    /\ wtPc' = IF wtReceipt = "reverted" THEN "failed" ELSE "confirmed"
    /\ UNCHANGED <<wtAdapter, wtInitialized, wtReceipt, wtElapsed>>
    /\ UNCHANGED nonWaitVars

\* part_005 lines 329-330 and part_006 lines 272-284: the timer fires and the
\* call returns, whatever the chain reported.
TimerFires ==
    /\ wtPc = "waiting"
    /\ wtAdapter \in TimerAdapters
    /\ wtElapsed >= TimerDelay
    /\ wtPc' = "confirmed"
    /\ UNCHANGED <<wtAdapter, wtInitialized, wtReceipt, wtElapsed>>
    /\ UNCHANGED nonWaitVars

NextWait ==
    \/ WaitForTransactionCall
    \/ ChainReports
    \/ WaitTimeAdvance
    \/ ProviderResolves
    \/ TimerFires

SpecWait == Init /\ [][NextWait]_vars

\* The steps of the call itself and the passing of time are not delayed
\* forever; the chain's report is under no such obligation.
SpecWaitFair ==
    /\ SpecWait
    /\ WF_vars(WaitTimeAdvance)
    /\ WF_vars(ProviderResolves)
    /\ WF_vars(TimerFires)

\* C18: for every adapter, a waitForTransaction that is waiting eventually
\* returns confirmed or fails, also when the chain never reports the
\* transaction.
C18_WaitEventuallyReturns ==
    (wtPc = "waiting") ~> (wtPc \in {"confirmed", "failed"})

----------------------------------------------------------------------------
\* No action of the plan names a dependency.
AllIndependent == \A i \in 1..Len(actions) : actions[i].dependencies = {}

\* The execution has had status completed: it has it, or a listener of
\* 'rebalanceCompleted' threw after it was set.
ReachedCompleted == status = "completed" \/ error = "ListenerError"

\* C19 as stated: the actions of an all-independent plan are attempted
\* concurrently, so while one of them is in flight every other one has been
\* started as well; and the execution reaches completed exactly when every
\* action is confirmed.
C19_IndependentActionsRunConcurrently ==
    (~dryRun /\ status # "none" /\ AllIndependent) =>
        /\ pc \in {"submitting", "confirming"} => \A a \in PlanIds : Submitted(a)
        /\ ReachedCompleted <=> AllConfirmed

\* C19 amended: the actions of an all-independent plan are attempted one at
\* a time in ascending priority: an action is started only once the one
\* started before it is confirmed; and a real run reaches completed exactly
\* when every action is confirmed.
C19_IndependentActionsRunInPriorityOrder ==
    (~dryRun /\ status # "none" /\ AllIndependent) =>
        /\ \A k \in 1..(Len(adapterCalls) - 1) :
            /\ Confirmed(adapterCalls[k])
            /\ ActionById(adapterCalls[k]).priority
                   <= ActionById(adapterCalls[k + 1]).priority
        /\ ReachedCompleted <=> AllConfirmed

\* A real run of a full all-independent plan with distinct priorities has
\* started and confirmed every action and is completed.
C19_Witness ==
    /\ ~dryRun /\ AllIndependent /\ Len(actions) = MaxActions
    /\ \E i, j \in 1..Len(actions) : actions[i].priority # actions[j].priority
    /\ Len(adapterCalls) = MaxActions
    /\ AllConfirmed /\ status = "completed"

\* C20: in an execution with a terminal status every record is confirmed or
\* failed, none is pending, and the action whose submission or confirmation
\* failed has a failed record.
C20_TerminalExecutionHasTerminalRecords ==
    status \in TerminalStatus =>
        /\ \A k \in 1..Len(transactions) :
            transactions[k].status \in {"confirmed", "failed"}
        /\ FailedAction # 0 => HasRecord(FailedAction, "failed")

----------------------------------------------------------------------------
\* The completion notifications emitted for the execution.
Notifications ==
    { k \in 1..Len(emitted) : emitted[k] \in {"rebalanceCompleted", "rebalanceFailed"} }

\* C21: a real run that has ended in a terminal status has completedAt set
\* and exactly one completion notification was emitted for it.
C21_TerminalRunNotifiedExactlyOnce ==
    (~dryRun /\ pc = "returned" /\ status \in TerminalStatus) =>
        /\ completedAt
        /\ Cardinality(Notifications) = 1

\* C22: while the run waits for the confirmation of an action, the record
\* with the hash its adapter call returned is the last of the records, for
\* that action, with status pending.
C22_RecordStoredBeforeWait ==
    pc = "confirming" =>
        /\ Len(transactions) > 0
        /\ transactions[Len(transactions)] =
               [actionId |-> actions[idx].id, txHash |-> Len(adapterCalls),
                status |-> "pending"]
        /\ waitCalls[Len(waitCalls)] = actions[idx].id

\* The run waits for the confirmation of the last action of a full plan.
C22_Witness ==
    /\ pc = "confirming"
    /\ idx = MaxActions
    /\ Len(transactions) = MaxActions

\* The status changes the lifecycle allows.  A real run of an empty plan is
\* created, set executing and set completed in one synchronous block, so its
\* status appears as completed at once.
LifecycleSteps ==
    { <<"none", "executing">>,
      <<"executing", "completed">>,
      <<"executing", "failed">>,
      <<"executing", "partial">> }

\* C23: the status of a real run changes only along
\* pending -> executing -> completed, failed or partial.
C23_StatusFollowsLifecycle ==
    [][(~dryRun' /\ status' # status) =>
          \/ <<status, status'>> \in LifecycleSteps
          \/ status = "none" /\ status' = "completed" /\ actions' = <<>>]_vars

\* The actions in the order they were started respect the dependencies:
\* every action an action depends on was started before it.
StartedInTopologicalOrder ==
    \A l \in 1..Len(adapterCalls) :
        \A a \in TransitiveDeps(adapterCalls[l]) :
            \E k \in 1..(l - 1) : adapterCalls[k] = a

\* Actions neither of which depends on the other are started in ascending
\* priority, equal priorities in plan position order.
StartedInPriorityOrder ==
    \A k, l \in 1..Len(adapterCalls) :
        (/\ k < l
         /\ adapterCalls[k] \notin TransitiveDeps(adapterCalls[l])
         /\ adapterCalls[l] \notin TransitiveDeps(adapterCalls[k])) =>
            \/ ActionById(adapterCalls[k]).priority < ActionById(adapterCalls[l]).priority
            \/ /\ ActionById(adapterCalls[k]).priority = ActionById(adapterCalls[l]).priority
               /\ adapterCalls[k] < adapterCalls[l]

\* C24: the order in which the actions of an acyclic plan are started is a
\* topological order of the dependency graph, ascending in priority, ties in
\* plan position order.
C24_StartOrderIsTopological ==
    (~dryRun /\ ~Cyclic) => (StartedInTopologicalOrder /\ StartedInPriorityOrder)

----------------------------------------------------------------------------
(* evaluateTriggers as a function of its arguments and the clock *)

\* The call is made on days 1..MaxTrigNow.
MaxTrigNow == 2

\* The triggers a caller of setupAutoRebalance can configure: each one
\* absent, zero or positive.
TriggerInputs ==
    [timeInterval : {Absent, 0, 1},
     apyDropThreshold : {Absent, 0, 5},
     valueThreshold : {Absent, 0, 10}]

\* evaluateTriggers is called, lines 775-800.
EvaluateTriggersCall ==
    /\ ~trigCalled
    /\ \E trig \in TriggerInputs, last \in {NoDate, 0, 1},
          portfolio \in Portfolios, now \in 1..MaxTrigNow :
        /\ trigSettings' = [triggers |-> trig, lastExecuted |-> last]
        /\ trigPortfolio' = portfolio
        /\ trigNow' = now
        /\ trigResult' = EvaluateTriggers(portfolio,
                             [triggers |-> trig, lastExecuted |-> last], now)
    /\ trigCalled' = TRUE
    /\ UNCHANGED nonTrigVars

NextTrig == EvaluateTriggersCall

SpecTrig == Init /\ [][NextTrig]_vars

\* (a) the time since the last run has reached the configured interval.
TimeDue ==
    /\ trigSettings.triggers.timeInterval # Absent
    /\ trigSettings.lastExecuted # NoDate
    /\ trigNow - trigSettings.lastExecuted >= trigSettings.triggers.timeInterval

\* (b) the average APY is below the configured floor.
ApyBelowFloor ==
    /\ trigSettings.triggers.apyDropThreshold # Absent
    /\ trigPortfolio.averageApy < trigSettings.triggers.apyDropThreshold

\* (c) the portfolio value change has reached the configured threshold.
ValueChanged ==
    /\ trigSettings.triggers.valueThreshold # Absent
    /\ Abs(trigPortfolio.totalPnlPercentage) >= trigSettings.triggers.valueThreshold

\* C25: the trigger decision is true if and only if the time since the last
\* run has reached the configured interval, or the average APY is below the
\* configured floor, or the value change has reached the configured
\* threshold.
C25_DecisionIffAnyPredicate ==
    trigCalled => (trigResult <=> (TimeDue \/ ApyBelowFloor \/ ValueChanged))

----------------------------------------------------------------------------
\* C30: executeOnTargetChain is called, and a transaction hash returned,
\* only with a signature obtained for the request; a call that ends in the
\* timeout or in the error of requestSignature has never called it.
C30_TargetChainOnlyWithSignature ==
    /\ targetCalls <= 1
    /\ targetCalls = 1 => (signature /\ requestCalls = 1 /\ sigError = "none")
    /\ sigPc = "returned" => targetCalls = 1
    /\ sigPc = "failed" => (targetCalls = 0 /\ ~signature)

\* The call has returned a hash after polls that found no signature.
C30_Witness ==
    /\ sigPc = "returned"
    /\ targetCalls = 1
    /\ attempts > 0

----------------------------------------------------------------------------
\* The default limit of getRebalanceHistory.
HistoryLimit == 50

\* getRebalanceHistory(wallet, limit, offset), lines 289-298: the stored
\* executions of the wallet, newest first, sliced.  The store holds at most
\* the one execution of this model.
GetRebalanceHistory(wallet, limit, offset) ==
    LET all == IF ExecId \in executionQueue /\ walletAddress = wallet
               THEN <<ExecId>> ELSE <<>>
        last == IF offset + limit < Len(all) THEN offset + limit ELSE Len(all)
    IN SubSeq(all, offset + 1, last)

\* The queue-size term of healthCheck, line 422.
QueueSize == Cardinality(executionQueue)

\* C28: a real run is in the execution store from its start on and is never
\* removed: getRebalanceHistory of its wallet returns it, also once it is
\* terminal, and the number of stored executions never decreases.
C28_StoredExecutionsAreKept ==
    /\ []((~dryRun /\ status # "none") =>
            /\ ExecId \in executionQueue
            /\ GetRebalanceHistory(walletAddress, HistoryLimit, 0) = <<ExecId>>
            /\ QueueSize = 1)
    /\ [][executionQueue \subseteq executionQueue']_vars

\* A real run has ended and is still stored.
C28_Witness ==
    /\ ~dryRun /\ pc = "returned" /\ status \in TerminalStatus
    /\ Len(actions) = MaxActions
    /\ QueueSize = 1

\* C29: a dry run changes neither the execution store nor the auto-rebalance
\* settings, emits no event, and getRebalanceHistory never returns its
\* execution.
C29_DryRunLeavesServiceUnchanged ==
    /\ [](dryRun =>
            /\ emitted = <<>>
            /\ GetRebalanceHistory(walletAddress, HistoryLimit, 0) = <<>>)
    /\ [][dryRun' =>
            /\ executionQueue' = executionQueue
            /\ settings' = settings
            /\ emitted' = emitted]_vars

\* A dry run of a full plan has returned its execution.
C29_Witness ==
    /\ dryRun /\ pc = "returned" /\ status = "completed"
    /\ Len(actions) = MaxActions
    /\ results # NewResults

====
